---- MODULE Spec2Model ----
(***************************************************************************)
(* The generation pipeline of backend/services/ai_service.py:              *)
(* generate_quiz (bounded retry loop with de-duplication) and              *)
(* generate_flashcards (one batch call), together with the module-level    *)
(* availability flags, the MCQ and flashcard parsers and _get_chunks.      *)
(*                                                                         *)
(* Texts are sequences of one-character strings.  A raw model reply is a   *)
(* sequence of lexical tokens (prose, braces, brackets, "key": value       *)
(* members), on which the regular-expression search and json.loads are     *)
(* modelled.  The study-material context is represented by its length:     *)
(* the code only measures it (len(context) < 200) and slices it.           *)
(***************************************************************************)
EXTENDS Integers, Sequences, FiniteSets, TLC

(***************************************************************************)
(* Bounds of the model.                                                    *)
(***************************************************************************)
\* number of chunks the retrieval collaborator returns, at most
MaxChunks == 2
\* accepted questions whose reply may deviate from the plain form
MaxVaried == 1
\* elements of a flashcard array reply, at most
MaxCards == 2

(***************************************************************************)
(* Program constants.                                                      *)
(***************************************************************************)
EasyCount == 5
MediumCount == 8
HardCount == 10
DefaultCount == 8
BudgetFactor == 4
MinContextLen == 200
McqOptionCount == 4

Difficulties == {"easy", "medium", "hard", "extreme"}

\* DIFFICULTY_QUESTION_COUNT.get(difficulty, 8); FLASHCARD_COUNT is the same dict
DIFFICULTY_QUESTION_COUNT(difficulty) ==
    CASE difficulty = "easy" -> EasyCount
      [] difficulty = "medium" -> MediumCount
      [] difficulty = "hard" -> HardCount
      [] OTHER -> DefaultCount

(***************************************************************************)
(* Texts: str.strip() and str.lower().                                     *)
(***************************************************************************)
LowerLetters == <<"a", "b", "c", "d">>
UpperLetters == <<"A", "B", "C", "D">>

LowerChar(c) ==
    IF \E i \in DOMAIN UpperLetters : UpperLetters[i] = c
    THEN LowerLetters[CHOOSE i \in DOMAIN UpperLetters : UpperLetters[i] = c]
    ELSE c

UpperChar(c) ==
    IF \E i \in DOMAIN LowerLetters : LowerLetters[i] = c
    THEN UpperLetters[CHOOSE i \in DOMAIN LowerLetters : LowerLetters[i] = c]
    ELSE c

IsSpace(c) == c = " "

RECURSIVE LStrip(_)
LStrip(s) == IF s /= <<>> /\ IsSpace(Head(s)) THEN LStrip(Tail(s)) ELSE s

RECURSIVE RStrip(_)
RStrip(s) ==
    IF s /= <<>> /\ IsSpace(s[Len(s)]) THEN RStrip(SubSeq(s, 1, Len(s) - 1)) ELSE s

Strip(s) == RStrip(LStrip(s))

Lower(s) == [i \in DOMAIN s |-> LowerChar(s[i])]

Upper(s) == [i \in DOMAIN s |-> UpperChar(s[i])]

\* mcq["question"].strip().lower(), without the normalisation
NormalizeRaw(s) == s

\* mcq["question"].strip().lower()
Normalize(s) == Lower(Strip(s))

(***************************************************************************)
(* JSON values and the tokens of a raw reply.                              *)
(* A value is [t, s, n]: t the Python type after json.loads, s the text of *)
(* a str (or the element types of a list), n the number of an int or bool. *)
(***************************************************************************)
StrVal(s) == [t |-> "str", s |-> s, n |-> 0]
IntVal(n) == [t |-> "int", s |-> <<>>, n |-> n]
BoolVal(b) == [t |-> "bool", s |-> <<>>, n |-> IF b THEN 1 ELSE 0]
NullVal == [t |-> "null", s |-> <<>>, n |-> 0]
ListVal(types) == [t |-> "list", s |-> types, n |-> Len(types)]

Prose == [tk |-> "txt", k |-> "", v |-> NullVal]
LBrace == [tk |-> "{", k |-> "", v |-> NullVal]
RBrace == [tk |-> "}", k |-> "", v |-> NullVal]
LBracket == [tk |-> "[", k |-> "", v |-> NullVal]
RBracket == [tk |-> "]", k |-> "", v |-> NullVal]
Member(k, v) == [tk |-> "kv", k |-> k, v |-> v]
Scalar(v) == [tk |-> "val", k |-> "", v |-> v]

\* isinstance(x, str), isinstance(x, list), isinstance(x, int): bool is an int
IsStr(v) == v.t = "str"
IsList(v) == v.t = "list"
IsInt(v) == v.t \in {"int", "bool"}

\* dict.get(key): None when the key is absent
Get(data, key) == IF key \in DOMAIN data THEN data[key] ELSE NullVal

(***************************************************************************)
(* The MCQ parser of _generate_mcq_from_context.                           *)
(***************************************************************************)
EmptyDict == [k \in {} |-> NullVal]

\* a dict is falsy exactly when it is empty (if not mcq)
IsEmptyDict(d) == DOMAIN d = {}

Positions(raw, tk) == {i \in DOMAIN raw : raw[i].tk = tk}

Min(S) == CHOOSE x \in S : \A y \in S : x <= y

\* a member whose string value holds the character "}"
HasBrace(tok) ==
    tok.tk = "kv" /\ tok.v.t = "str" /\ \E i \in DOMAIN tok.v.s : tok.v.s[i] = "}"

\* where the reply holds a "}" character: a closing brace of the JSON text, or
\* a brace inside a string value
Closers(raw) == Positions(raw, "}") \cup {j \in DOMAIN raw : HasBrace(raw[j])}

\* re.search(r"\{[\s\S]*?\}", raw): from the first "{" to the first "}" after it;
\* when that "}" lies inside a string value the match ends within that member
ObjectMatch(raw) ==
    LET opens == Positions(raw, "{")
        closes == IF opens = {} THEN {}
                  ELSE {j \in Closers(raw) : j > Min(opens)}
    IN IF closes = {}
       THEN [found |-> FALSE, text |-> <<>>]
       ELSE [found |-> TRUE, text |-> SubSeq(raw, Min(opens), Min(closes))]

\* the members between the braces of a matched object
Inner(text) == SubSeq(text, 2, Len(text) - 1)

\* json.loads raises unless the text is one object of "key": value members,
\* closed by its brace
JsonObjectOk(text) ==
    /\ text[Len(text)].tk = "}"
    /\ \A i \in DOMAIN Inner(text) : Inner(text)[i].tk = "kv"

\* json.loads of an object: a later member overrides an earlier one of the same key
JsonObject(text) ==
    LET ms == Inner(text)
        Last(k) == CHOOSE i \in DOMAIN ms :
                       /\ ms[i].k = k
                       /\ \A j \in DOMAIN ms : ms[j].k = k => j <= i
    IN [k \in {ms[i].k : i \in DOMAIN ms} |-> ms[Last(k)].v]

\* the shape test with the length of options not checked
IsValidMcqAnyLength(data) ==
    /\ IsStr(Get(data, "question"))
    /\ IsList(Get(data, "options"))
    /\ IsInt(Get(data, "correct_index"))
    /\ IsStr(Get(data, "explanation"))

\* the shape test of lines 121-127
IsValidMcq(data) ==
    /\ IsStr(Get(data, "question"))
    /\ IsList(Get(data, "options"))
    /\ Get(data, "options").n = McqOptionCount
    /\ IsInt(Get(data, "correct_index"))
    /\ IsStr(Get(data, "explanation"))

\* lines 113-134: what the try block returns for one outcome of the model call
ParseMcq(reply) ==
    IF reply.kind = "raise" THEN EmptyDict
    ELSE LET match == ObjectMatch(reply.raw)
         IN IF ~match.found THEN EmptyDict
            ELSE IF ~JsonObjectOk(match.text) THEN EmptyDict
            ELSE IF IsValidMcq(JsonObject(match.text)) THEN JsonObject(match.text)
            ELSE EmptyDict

\* the availability guard of lines 70 and 142
ClientReady(groq_available, client_set) == groq_available /\ client_set

\* _generate_mcq_from_context: the dict it returns and the model calls it issues
generate_mcq_from_context(groq_available, client_set, reply) ==
    IF ~ClientReady(groq_available, client_set)
    THEN [mcq |-> EmptyDict, calls |-> 0]
    ELSE [mcq |-> ParseMcq(reply), calls |-> 1]

(***************************************************************************)
(* What client.chat.completions.create can answer to an MCQ prompt.        *)
(* The code compares question texts only by equality of their normalised   *)
(* form, so the texts not yet asked are interchangeable: a "new" question  *)
(* is the first text of the pool whose key is not in the asked set.        *)
(***************************************************************************)
PoolSize == Len(LowerLetters) * Len(LowerLetters)

PoolText(i) ==
    << LowerLetters[((i - 1) \div Len(LowerLetters)) + 1],
       LowerLetters[((i - 1) % Len(LowerLetters)) + 1] >>

\* the same question written with other spacing or letter case
Variants(t) == {t, <<" ">> \o t \o <<" ">>, Upper(t)}

FourStrings == <<"str", "str", "str", "str">>

McqObject(q, o, c, e) ==
    <<LBrace, Member("question", q), Member("options", o),
      Member("correct_index", c), Member("explanation", e), RBrace>>

PlainMcq(t) ==
    McqObject(StrVal(t), ListVal(FourStrings), IntVal(0), StrVal(<<"e">>))

Without(raw, key) == SelectSeq(raw, LAMBDA tok : tok.k /= key)

RequiredKeys == {"question", "options", "correct_index", "explanation"}

\* well-formed JSON objects that lack one of the four members, or carry it
\* with the wrong type or the wrong number of options
ShapelessRaws(t) ==
    {Without(PlainMcq(t), key) : key \in RequiredKeys}
    \cup { McqObject(IntVal(1), ListVal(FourStrings), IntVal(0), StrVal(<<"e">>)),
           McqObject(StrVal(t), ListVal(<<"str", "str", "str">>), IntVal(0), StrVal(<<"e">>)),
           McqObject(StrVal(t), ListVal(FourStrings), StrVal(<<"a">>), StrVal(<<"e">>)),
           McqObject(StrVal(t), ListVal(FourStrings), IntVal(0), NullVal) }

\* replies in which no JSON object is found or json.loads fails
BrokenRaws(t) ==
    { <<Prose>>,
      SubSeq(PlainMcq(t), 1, Len(PlainMcq(t)) - 1),
      <<LBrace, Member("question", StrVal(t)), LBrace, RBrace, RBrace>> }

\* an object of the required members that deviates from the plain form:
\* padded upper-case text, numbers as options, an index outside 0..3
LooseMcq(t) ==
    McqObject(StrVal(<<" ">> \o Upper(t) \o <<" ">>),
              ListVal(<<"int", "int", "int", "int">>), IntVal(7), StrVal(<<>>))

\* the plain object inside prose, and followed by a second object
WrappedRaws(t) ==
    { <<Prose>> \o PlainMcq(t) \o <<Prose>>,
      PlainMcq(t) \o <<Prose>> \o PlainMcq(<<"z">>) }

\* a well-shaped object whose explanation mentions braces, as in "a block { }";
\* its question is the last text of the pool, which no other reply uses
BracedMcq ==
    McqObject(StrVal(PoolText(PoolSize)), ListVal(FourStrings), IntVal(0),
              StrVal(<<"{", " ", "}">>))

Unasked(asked) == {i \in 1..PoolSize : Normalize(PoolText(i)) \notin asked}

Text(raw) == [kind |-> "text", raw |-> raw]

\* the replies to one invocation: asked is the set passed as "previous
\* questions", first and latest the texts of the questions accepted first and
\* last (or <<>>)
McqReplies(asked, accepted, first, latest) ==
    LET unasked == Unasked(asked) \ {PoolSize}
        t == PoolText(IF unasked = {} THEN PoolSize ELSE Min(unasked))
        old == {first, latest} \ {<<>>}
    IN {[kind |-> "raise", raw |-> <<>>], Text(BracedMcq)}
       \cup {Text(r) : r \in BrokenRaws(t)}
       \cup {Text(r) : r \in ShapelessRaws(t)}
       \cup {Text(PlainMcq(v)) : v \in UNION {Variants(Normalize(o)) : o \in old}}
       \cup (IF unasked = {} THEN {}
             ELSE IF accepted < MaxVaried
             THEN {Text(PlainMcq(t)), Text(LooseMcq(t))}
                  \cup {Text(r) : r \in WrappedRaws(t)}
             ELSE {Text(PlainMcq(t))})

(***************************************************************************)
(* The retrieval collaborator and _get_chunks.                             *)
(* A chunk is [text, len]: text is "str" (a string of len characters),     *)
(* "none" (the key holds None) or "missing" (no "text" key).               *)
(***************************************************************************)
ChunkLens == {0, 99, 100}

Chunks ==
    {[text |-> "str", len |-> n] : n \in ChunkLens}
    \cup {[text |-> "none", len |-> 0], [text |-> "missing", len |-> 0]}

ChunkSeqs == UNION {[1..n -> Chunks] : n \in 0..MaxChunks}

\* retrieve_context returns chunks, or raises: an error of the service
\* ("raise") or the error of a timed-out request ("timeout")
RetrievalErrors == {"raise", "timeout"}

Retrievals ==
    {[kind |-> k, chunks |-> <<>>] : k \in RetrievalErrors}
    \cup {[kind |-> "chunks", chunks |-> cs] : cs \in ChunkSeqs}

\* _get_chunks with the try/except left out
get_chunks_uncaught(retrieval) ==
    IF retrieval.kind \in RetrievalErrors
    THEN [raised |-> TRUE, chunks |-> <<>>]
    ELSE [raised |-> FALSE, chunks |-> retrieval.chunks]

\* _get_chunks with an except clause that does not cover the timeout error
get_chunks_narrow(retrieval) ==
    IF retrieval.kind = "timeout"
    THEN [raised |-> TRUE, chunks |-> <<>>]
    ELSE [raised |-> FALSE, chunks |-> retrieval.chunks]

\* _get_chunks: an exception of retrieve_context becomes []
get_chunks(retrieval) ==
    IF retrieval.kind \in RetrievalErrors
    THEN [raised |-> FALSE, chunks |-> <<>>]
    ELSE [raised |-> FALSE, chunks |-> retrieval.chunks]

\* c.get("text") is truthy
HasText(c) == c.text = "str" /\ c.len > 0

RECURSIVE SumLen(_)
SumLen(cs) == IF cs = <<>> THEN 0 ELSE Head(cs).len + SumLen(Tail(cs))

\* len(" ".join(c.get("text", "") for c in chunks if c.get("text")))
JoinLen(chunks) ==
    LET kept == SelectSeq(chunks, HasText)
    IN IF kept = <<>> THEN 0 ELSE SumLen(kept) + (Len(kept) - 1)

\* the threshold test with half the threshold
InsufficientHalf(context) == context < MinContextLen \div 2

\* len(context) < 200
Insufficient(context) == context < MinContextLen

(***************************************************************************)
(* The flashcard parser of _generate_flashcards_from_context.              *)
(***************************************************************************)
\* re.search(r"\[\s*\{[\s\S]*?\}\s*\]", text): from the first "[" that opens an
\* object to the first "}" that a "]" follows
ArrayMatch(raw) ==
    LET Ends(i) == {j \in Positions(raw, "}") :
                        j > i + 1 /\ j + 1 \in Positions(raw, "]")}
        starts == {i \in Positions(raw, "[") :
                        i + 1 \in Positions(raw, "{") /\ Ends(i) /= {}}
    IN IF starts = {}
       THEN [found |-> FALSE, text |-> <<>>]
       ELSE [found |-> TRUE,
             text |-> SubSeq(raw, Min(starts), Min(Ends(Min(starts))) + 1)]

\* json.loads of the elements of an array: objects of members, or scalars
RECURSIVE JsonElements(_)
JsonElements(toks) ==
    IF toks = <<>> THEN [ok |-> TRUE, elems |-> <<>>]
    ELSE IF Head(toks).tk = "val"
    THEN LET rest == JsonElements(Tail(toks))
         IN [ok |-> rest.ok,
             elems |-> <<[isdict |-> FALSE, data |-> EmptyDict]>> \o rest.elems]
    ELSE IF Head(toks).tk = "{" /\ Positions(toks, "}") /= {}
    THEN LET close == Min(Positions(toks, "}"))
             obj == SubSeq(toks, 1, close)
             rest == JsonElements(SubSeq(toks, close + 1, Len(toks)))
         IN IF JsonObjectOk(obj)
            THEN [ok |-> rest.ok,
                  elems |-> <<[isdict |-> TRUE, data |-> JsonObject(obj)]>> \o rest.elems]
            ELSE [ok |-> FALSE, elems |-> <<>>]
    ELSE [ok |-> FALSE, elems |-> <<>>]

DigitChars == <<"0", "1", "2", "3", "4", "5", "6", "7", "8", "9">>

\* str(x)
PyStr(v) ==
    CASE v.t = "str" -> v.s
      [] v.t = "null" -> <<"N", "o", "n", "e">>
      [] v.t = "bool" -> IF v.n = 1 THEN <<"T", "r", "u", "e">>
                         ELSE <<"F", "a", "l", "s", "e">>
      [] v.t = "int" -> <<DigitChars[(v.n % Len(DigitChars)) + 1]>>
      [] OTHER -> <<"[", "]">>

\* str(card.get(key, "")).strip()
CardField(data, key) ==
    Strip(PyStr(IF key \in DOMAIN data THEN data[key] ELSE StrVal(<<>>)))

Card(front, back) ==
    [question |-> front, answer |-> back, front |-> front, back |-> back]

\* lines 181-193: the cards kept, in order
RECURSIVE KeptCards(_)
KeptCards(elems) ==
    IF elems = <<>> THEN <<>>
    ELSE LET front == CardField(Head(elems).data, "front")
             back == CardField(Head(elems).data, "back")
         IN (IF front /= <<>> /\ back /= <<>> THEN <<Card(front, back)>> ELSE <<>>)
            \o KeptCards(Tail(elems))

\* lines 173-197: what the try block returns for one outcome of the model call
ParseFlashcards(reply) ==
    IF reply.kind = "raise" THEN <<>>
    ELSE LET match == ArrayMatch(reply.raw)
             parsed == JsonElements(Inner(match.text))
         IN IF ~match.found THEN <<>>
            ELSE IF ~parsed.ok THEN <<>>
            ELSE IF \E i \in DOMAIN parsed.elems : ~parsed.elems[i].isdict THEN <<>>
            ELSE KeptCards(parsed.elems)

\* _generate_flashcards_from_context: the list it returns and the model calls it issues
generate_flashcards_from_context(groq_available, client_set, reply) ==
    IF ~ClientReady(groq_available, client_set)
    THEN [flashcards |-> <<>>, calls |-> 0]
    ELSE [flashcards |-> ParseFlashcards(reply), calls |-> 1]

(***************************************************************************)
(* What client.chat.completions.create can answer to a flashcard prompt.   *)
(***************************************************************************)
CardFronts == {StrVal(<<"a">>), StrVal(<<" ">>), NullVal}
CardBacks == {StrVal(<<" ", "b">>), StrVal(<<>>)}

CardElements ==
    {<<LBrace, Member("front", f), Member("back", b), RBrace>> :
        f \in CardFronts, b \in CardBacks}
    \cup {<<LBrace, Member("front", StrVal(<<"a">>)), RBrace>>,
          <<LBrace, Member("back", IntVal(5)), Member("front", StrVal(<<"c">>)), RBrace>>,
          <<Scalar(IntVal(1))>>}

RECURSIVE Flatten(_)
Flatten(ss) == IF ss = <<>> THEN <<>> ELSE Head(ss) \o Flatten(Tail(ss))

CardArrays ==
    {<<LBracket>> \o Flatten(es) \o <<RBracket>> :
        es \in UNION {[1..n -> CardElements] : n \in 0..MaxCards}}

\* an array of two cards with a number between them
MixedArray ==
    <<LBracket, LBrace, Member("front", StrVal(<<"a">>)),
      Member("back", StrVal(<<"b">>)), RBrace, Scalar(IntVal(1)),
      LBrace, Member("front", StrVal(<<"c">>)), Member("back", StrVal(<<"d">>)),
      RBrace, RBracket>>

FlashcardReplies ==
    {[kind |-> "raise", raw |-> <<>>], Text(<<Prose>>), Text(MixedArray),
     Text(<<LBracket, LBrace, Prose, RBrace, RBracket>>),
     Text(<<Prose, LBracket, LBrace, Member("front", StrVal(<<"a">>)),
            Member("back", StrVal(<<"b">>)), RBrace, RBracket, Prose,
            LBracket, LBrace, RBrace, RBracket>>)}
    \cup {Text(a) : a \in CardArrays}

(***************************************************************************)
(* Module initialisation (lines 21-49).                                    *)
(***************************************************************************)
\* GROQ_API_KEY: unset or blank, not starting with "gsk_", or of the right form
ApiKeys == {"absent", "malformed", "valid"}

\* what happens after the key test: Groq(api_key=...) raises, or the print that
\* follows the assignment of the client raises, or neither
InitOutcomes == {"groq_raises", "print_raises", "ok"}

\* lines 24-37 with the "gsk_" prefix of the key not tested
GroqSetupAnyKey(api_key, import_ok, init) ==
    IF ~import_ok \/ api_key = "absent" \/ init = "groq_raises"
    THEN [available |-> FALSE, client |-> FALSE]
    ELSE IF init = "print_raises"
    THEN [available |-> FALSE, client |-> TRUE]
    ELSE [available |-> TRUE, client |-> TRUE]

\* lines 21-37: the flag and the client after the import of the module
GroqSetup(api_key, import_ok, init) ==
    IF ~import_ok \/ api_key /= "valid" \/ init = "groq_raises"
    THEN [available |-> FALSE, client |-> FALSE]
    ELSE IF init = "print_raises"
    THEN [available |-> FALSE, client |-> TRUE]
    ELSE [available |-> TRUE, client |-> TRUE]

\* why the module holds no usable client ("ok" when it holds one)
StartupOf(api_key, import_ok, init) ==
    IF ~import_ok THEN "import_failed"
    ELSE IF api_key /= "valid" THEN api_key
    ELSE init

(***************************************************************************)
(* The orchestrator: generate_quiz and generate_flashcards.                *)
(***************************************************************************)
\* the argument of the wrapper built anew instead of passed along
PreviousQuestionsEmpty(asked) == {}

\* line 225: the set passed as "asked", whose members line 73 lists in the prompt
PreviousQuestions(asked) == asked

\* max_attempts with one attempt more per question
MaxAttemptsFive(n) == n * (BudgetFactor + 1)

\* max_attempts = count * 4
MaxAttempts(n) == n * BudgetFactor

\* the loop test that gives up after the first empty-handed round of target attempts
LoopContinuesFirstRound(n, target, used, budget) ==
    n < target /\ used < budget /\ (n > 0 \/ used < target)

\* the loop test stopping one attempt short of the budget
LoopContinuesShort(n, target, used, budget) == n < target /\ used < budget - 1

\* the loop test without the budget
LoopContinuesUnbudgeted(n, target, used, budget) == n < target

\* while len(questions) < count and attempts < max_attempts
LoopContinues(n, target, used, budget) == n < target /\ used < budget

\* _empty_quiz
empty_quiz(message) ==
    [success |-> FALSE, message |-> message, questions |-> <<>>]

\* lines 235-242 with a short sequence treated as a failure
QuizResultStrict(qs, target, diff) ==
    IF Len(qs) < target THEN empty_quiz("MCQ generation failed")
    ELSE [success |-> TRUE, difficulty |-> diff, questions |-> qs]

\* lines 235-242
QuizResult(qs, target, diff) ==
    IF qs = <<>> THEN empty_quiz("MCQ generation failed")
    ELSE [success |-> TRUE, difficulty |-> diff, questions |-> qs]

\* lines 251 and 258
FlashcardsFailure == [success |-> FALSE, flashcards |-> <<>>]

\* lines 262-266 with an empty list treated as a failure, as generate_quiz does
FlashcardsResultNonEmpty(cards, diff) ==
    IF cards = <<>> THEN FlashcardsFailure
    ELSE [success |-> TRUE, difficulty |-> diff, flashcards |-> cards]

\* lines 262-266
FlashcardsResult(cards, diff) ==
    [success |-> TRUE, difficulty |-> diff, flashcards |-> cards]

NoEnvelope == EmptyDict

VARIABLES
    GROQ_AVAILABLE,   \* module flag, set once by the import
    client,           \* TRUE when the module holds a Groq client
    RAG_AVAILABLE,    \* module flag, set once by the import
    pc,               \* "idle", "quiz_loop", "flash_call" or "done"
    op,               \* the public function running: "none", "quiz", "flashcards"
    difficulty,
    count,
    context,          \* len(context)
    questions,
    asked_questions,
    attempts,
    max_attempts,
    envelope,         \* the dict returned, NoEnvelope before the return
    raised,           \* an exception left the public function
    clientCalls,      \* invocations of _generate_*_from_context in this call
    modelCalls,       \* client.chat.completions.create calls in this call
    script,           \* which reply patterns the replies of this call still fit
    firstRaw,         \* the first reply, while every reply repeated it
    heard,            \* normalised question texts of the replies so far, while "fresh"
    braced,           \* a well-shaped reply of this call held a "}" in a string
    retrieved,        \* what retrieve_context did in this call
    startup,          \* how the import of the module went: see StartupOf
    previous,         \* the asked set passed to the latest invocation of the MCQ wrapper
    flashRaw          \* the reply to the model call of generate_flashcards, if one was issued

\* Two generate_quiz calls served by two threads of the same process.
VARIABLES
    calls,            \* per call: its position, its arguments, its locals and its result
    solo              \* per call: the locals and result of the same call run alone on
                      \* the replies this call received

\* The accounts of backend/services/auth_service.py and the requests served by
\* backend/routes/auth_routes.py.
VARIABLES
    users,            \* the rows of the User table, in the order of their ids
    reqs,             \* per worker: the request it is serving, between two database sessions
    nextToken,        \* the tokens secrets.token_urlsafe has given out so far, plus one
    lastResp          \* the latest response a route returned

vars == <<GROQ_AVAILABLE, client, RAG_AVAILABLE, pc, op, difficulty, count,
          context, questions, asked_questions, attempts, max_attempts, envelope,
          raised, clientCalls, modelCalls, script, firstRaw, heard, braced, retrieved,
          startup, previous, flashRaw, calls, solo, users, reqs, nextToken, lastResp>>

module == <<GROQ_AVAILABLE, client, RAG_AVAILABLE, startup>>
locals == <<questions, asked_questions, attempts, max_attempts>>
replies == <<script, firstRaw, heard, braced>>
history == <<script, firstRaw, heard, braced, retrieved>>

\* the state of the two-call model
pair == <<calls, solo>>

\* the state of the accounts model
auth == <<users, reqs, nextToken, lastResp>>

\* what the one-call model leaves alone
outside == <<pair, auth>>

\* the state of the one-call model, the module flags apart
single == <<pc, op, difficulty, count, context, questions, asked_questions,
            attempts, max_attempts, envelope, raised, clientCalls, modelCalls,
            script, firstRaw, heard, braced, retrieved, previous, flashRaw>>

NoReply == [kind |-> "none", raw |-> <<>>]

(***************************************************************************)
(* How the replies of one call are described (not part of the program).    *)
(***************************************************************************)
AllScripts == {"silent", "same", "fresh", "lacking"}

\* the text of the "question" member of a reply
QuestionOf(raw) ==
    LET at == {i \in DOMAIN raw : raw[i].tk = "kv" /\ raw[i].k = "question"}
    IN IF at = {} THEN <<>> ELSE raw[Min(at)].v.s

\* one JSON object of a question string, four option strings, an index in
\* 0..3 and an explanation string
WellShapedObject(toks) ==
    /\ Len(toks) = 6
    /\ toks[1] = LBrace /\ toks[6] = RBrace
    /\ toks[2].tk = "kv" /\ toks[2].k = "question" /\ toks[2].v.t = "str"
    /\ toks[3] = Member("options", ListVal(FourStrings))
    /\ toks[4].tk = "kv" /\ toks[4].k = "correct_index"
    /\ toks[4].v.t = "int" /\ toks[4].v.n \in 0..3
    /\ toks[5].tk = "kv" /\ toks[5].k = "explanation" /\ toks[5].v.t = "str"

\* a reply that is one well-shaped MCQ, possibly inside prose
WellShaped(raw) ==
    \/ WellShapedObject(raw)
    \/ /\ Len(raw) = 8
       /\ raw[1] = Prose /\ raw[8] = Prose
       /\ WellShapedObject(SubSeq(raw, 2, 7))

\* no string value of the reply holds a "}"
BraceFree(raw) == \A i \in DOMAIN raw : ~HasBrace(raw[i])

\* the reply has no member of the required kind for some required key
Lacking(raw) ==
    LET Has(key, types) ==
            \E i \in DOMAIN raw :
                raw[i].tk = "kv" /\ raw[i].k = key /\ raw[i].v.t \in types
        FourOptions ==
            \E i \in DOMAIN raw :
                raw[i].tk = "kv" /\ raw[i].k = "options" /\ raw[i].v.t = "list"
                /\ Len(raw[i].v.s) = 4
    IN ~ ( /\ Has("question", {"str"})
           /\ FourOptions
           /\ Has("correct_index", {"int", "bool"})
           /\ Has("explanation", {"str"}) )

Silent(ready, reply) == ~ready \/ reply.kind = "raise"

NextScript(ready, reply) ==
    {p \in script :
        \/ p = "silent" /\ Silent(ready, reply)
        \/ /\ p = "same" /\ ~Silent(ready, reply) /\ WellShaped(reply.raw)
           /\ (clientCalls = 0 \/ reply.raw = firstRaw)
        \/ p = "lacking" /\ ~Silent(ready, reply) /\ Lacking(reply.raw)
        \/ /\ p = "fresh" /\ ~Silent(ready, reply) /\ WellShaped(reply.raw)
           /\ Lower(Strip(QuestionOf(reply.raw))) \notin heard}

\* kept while the replies still fit the "fresh" pattern
NextHeard(ready, reply) ==
    IF "fresh" \in NextScript(ready, reply)
    THEN heard \cup {Lower(Strip(QuestionOf(reply.raw)))}
    ELSE {}

(***************************************************************************)
(* The locals of one generate_quiz call among several.                     *)
(***************************************************************************)
CallIds == {1, 2}

\* a thread that is not inside generate_quiz
IdleCall ==
    [pc |-> "idle", difficulty |-> "none", count |-> 0, questions |-> <<>>,
     asked_questions |-> {}, attempts |-> 0, max_attempts |-> 0,
     envelope |-> NoEnvelope]

IdleSolo ==
    [questions |-> <<>>, asked_questions |-> {}, attempts |-> 0,
     envelope |-> NoEnvelope]

\* asked_questions as a set of the module, shared by every call
AskedShared(cs, id) == UNION {cs[other].asked_questions : other \in CallIds}

\* asked_questions is a local of the call (line 216)
AskedOf(cs, id) == cs[id].asked_questions

\* lines 222-233: one round of the loop on the dict the wrapper returned
QuizRound(qs, asked, used, mcq) ==
    IF IsEmptyDict(mcq) \/ Normalize(Get(mcq, "question").s) \in asked
    THEN [questions |-> qs, asked_questions |-> asked, attempts |-> used + 1]
    ELSE [questions |-> Append(qs, mcq),
          asked_questions |-> asked \cup {Normalize(mcq["question"].s)},
          attempts |-> used + 1]

(***************************************************************************)
(* Accounts: backend/services/auth_service.py.                             *)
(* A password hash is the password under a tag: pbkdf2_sha256.verify(p, h) *)
(* holds exactly when h was made from p.  A token of 0 is NULL.  The       *)
(* expiry of a link is kept as a flag: the time it names has passed.       *)
(***************************************************************************)
MaxUsers == 2
MaxTokens == 2
MinPasswordLen == 8

Workers == {1, 2}

SpecialChars ==
    {"!", "@", "#", "$", "%", "^", "&", "*", "(", ")", ",", ".", "?", "\"", ":",
     "{", "}", "|", "<", ">"}

Range(f) == {f[i] : i \in DOMAIN f}

HasCharIn(password, class) == \E i \in DOMAIN password : password[i] \in class

NoError == "none"

\* validate_password_strength: the message returned, NoError for None
validate_password_strength(password) ==
    IF Len(password) < MinPasswordLen
    THEN "Password must be at least 8 characters long"
    ELSE IF ~HasCharIn(password, Range(UpperLetters))
    THEN "Password must contain at least one uppercase letter"
    ELSE IF ~HasCharIn(password, Range(LowerLetters))
    THEN "Password must contain at least one lowercase letter"
    ELSE IF ~HasCharIn(password, Range(DigitChars))
    THEN "Password must contain at least one number"
    ELSE IF ~HasCharIn(password, SpecialChars)
    THEN "Password must contain at least one special character"
    ELSE NoError

Strong1 == <<"A", "a", "1", "!", "a", "a", "a", "a">>
Strong2 == <<"B", "b", "2", "?", "b", "b", "b", "b">>
TooShort == <<"A", "a", "1", "!", "a", "a", "a">>
NoUpper == <<"a", "a", "1", "!", "a", "a", "a", "a">>

\* the passwords a request may carry
Passwords == {Strong1, Strong2, TooShort, NoUpper, <<>>}

\* the passwords a registration may carry
RegisterPasswords == {Strong1, NoUpper}

\* the e-mail addresses and the user names a request may carry
EmailInputs == {<<" ", "A">>, <<"b">>, <<>>}
UsernameInputs == {<<"c", " ">>, <<"d">>}

\* pbkdf2_sha256.hash and pbkdf2_sha256.verify
Hash(password) == [pbkdf2 |-> password]
Verify(password, hash) == hash = Hash(password)

\* create_access_token: the payload the token signs
create_access_token(user_id, role) == [user_id |-> user_id, role |-> role]

\* an administrator account that exists before any request
AdminUser ==
    [email |-> <<"d">>, username |-> <<"d">>, password_hash |-> Hash(Strong1),
     role |-> "admin", email_verified |-> FALSE,
     email_verify_token |-> 0, verify_expired |-> FALSE,
     reset_token |-> 0, reset_expired |-> FALSE]

\* db.query(User).filter(...).first(): the id of the first matching row, 0 for None
First(us, matching) ==
    IF \E i \in DOMAIN us : us[i] \in matching
    THEN Min({i \in DOMAIN us : us[i] \in matching})
    ELSE 0

\* student_register (lines 59-119): the dict returned and the table afterwards
student_register(us, token, email_in, password, username_in) ==
    LET email == Lower(Strip(email_in))
        username == Strip(username_in)
        password_error == validate_password_strength(password)
        ByEmail(u) == u.email = email
        ByUsername(u) == u.username = username
        user == [email |-> email, username |-> username,
                 password_hash |-> Hash(password), role |-> "student",
                 email_verified |-> FALSE,
                 email_verify_token |-> token, verify_expired |-> FALSE,
                 reset_token |-> 0, reset_expired |-> FALSE]
    IN IF password_error /= NoError
       THEN [result |-> [success |-> FALSE, message |-> password_error], users |-> us]
       ELSE IF First(us, {u \in Range(us) : ByEmail(u)}) /= 0
       THEN [result |-> [success |-> FALSE, message |-> "Email already registered"],
             users |-> us]
       ELSE IF First(us, {u \in Range(us) : ByUsername(u)}) /= 0
       THEN [result |-> [success |-> FALSE, message |-> "Username already taken"],
             users |-> us]
       ELSE [result |-> [success |-> TRUE,
                         message |-> "Registration successful. Verification email sent.",
                         user |-> [id |-> Len(us) + 1, email |-> email,
                                   username |-> username, role |-> "student"]],
             users |-> Append(us, user)]

\* student_login that turns away an account whose e-mail is not verified
student_login_verified_only(us, email_in, password) ==
    LET email == Lower(Strip(email_in))
        ByEmail(u) == u.email = email
        id == First(us, {u \in Range(us) : ByEmail(u)})
    IN IF id = 0 \/ ~us[id].email_verified
       THEN [success |-> FALSE, message |-> "Invalid email or password"]
       ELSE IF us[id].role /= "student"
       THEN [success |-> FALSE, message |-> "Not a student account"]
       ELSE IF ~Verify(password, us[id].password_hash)
       THEN [success |-> FALSE, message |-> "Invalid email or password"]
       ELSE [success |-> TRUE, message |-> "Login successful",
             token |-> create_access_token(id, us[id].role),
             user |-> [id |-> id, email |-> us[id].email,
                       username |-> us[id].username, role |-> us[id].role,
                       email_verified |-> us[id].email_verified]]

\* student_login (lines 125-158)
student_login(us, email_in, password) ==
    LET email == Lower(Strip(email_in))
        ByEmail(u) == u.email = email
        id == First(us, {u \in Range(us) : ByEmail(u)})
    IN IF id = 0
       THEN [success |-> FALSE, message |-> "Invalid email or password"]
       ELSE IF us[id].role /= "student"
       THEN [success |-> FALSE, message |-> "Not a student account"]
       ELSE IF ~Verify(password, us[id].password_hash)
       THEN [success |-> FALSE, message |-> "Invalid email or password"]
       ELSE [success |-> TRUE, message |-> "Login successful",
             token |-> create_access_token(id, us[id].role),
             user |-> [id |-> id, email |-> us[id].email,
                       username |-> us[id].username, role |-> us[id].role,
                       email_verified |-> us[id].email_verified]]

\* get_user_by_email (lines 249-258): the id found, 0 for None
get_user_by_email(us, email_in) ==
    LET email == Lower(Strip(email_in))
        ByEmail(u) == u.email = email
    IN First(us, {u \in Range(us) : ByEmail(u)})

\* save_reset_token (lines 261-270)
save_reset_token(us, user_id, token) ==
    IF user_id \in DOMAIN us
    THEN [us EXCEPT ![user_id].reset_token = token, ![user_id].reset_expired = FALSE]
    ELSE us

\* get_user_by_reset_token (lines 273-284): the id found, 0 for None
get_user_by_reset_token(us, token) ==
    LET ByToken(u) == u.reset_token = token /\ ~u.reset_expired
    IN First(us, {u \in Range(us) : ByToken(u)})

\* update_user_password (lines 287-300): the dict returned (NoError for the
\* None of a missing user) and the table afterwards
update_user_password(us, user_id, new_password) ==
    LET password_error == validate_password_strength(new_password)
    IN IF password_error /= NoError
       THEN [result |-> [success |-> FALSE, message |-> password_error], users |-> us]
       ELSE IF user_id \in DOMAIN us
       THEN [result |-> [success |-> TRUE],
             users |-> [us EXCEPT ![user_id].password_hash = Hash(new_password)]]
       ELSE [result |-> NoError, users |-> us]

\* clear_reset_token (lines 303-312)
clear_reset_token(us, user_id) ==
    IF user_id \in DOMAIN us
    THEN [us EXCEPT ![user_id].reset_token = 0, ![user_id].reset_expired = FALSE]
    ELSE us

\* a worker that is serving no request
IdleReq == [pc |-> "idle", user_id |-> 0, token |-> 0, password |-> <<>>]

NoResp == [route |-> "none"]

HttpOk == 200

\* forgot_password_route: the status and body returned, by whether
\* get_user_by_email found a user for a non-empty address (lines 142-160)
ForgotReply(found) ==
    [status |-> HttpOk,
     body |-> IF found
              THEN [success |-> TRUE,
                    message |-> "Password reset link sent to your email"]
              ELSE [success |-> TRUE]]

\* forgot_password_route: the status and body a request is answered with
forgot_password_reply(us, email_in) ==
    LET email == Strip(email_in)
    IN ForgotReply(email /= <<>> /\ get_user_by_email(us, email) /= 0)

\* the table without the row of a user
WithoutUser(us, id) ==
    [i \in 1..(Len(us) - 1) |-> IF i < id THEN us[i] ELSE us[i + 1]]

(***************************************************************************)
(* The state machine.                                                      *)
(***************************************************************************)
Init ==
    /\ \E api_key \in ApiKeys, import_ok \in BOOLEAN, init \in InitOutcomes :
          /\ GROQ_AVAILABLE = GroqSetup(api_key, import_ok, init).available
          /\ client = GroqSetup(api_key, import_ok, init).client
          /\ startup = StartupOf(api_key, import_ok, init)
    /\ RAG_AVAILABLE \in BOOLEAN
    /\ pc = "idle"
    /\ op = "none"
    /\ difficulty = "none"
    /\ count = 0
    /\ context = 0
    /\ questions = <<>>
    /\ asked_questions = {}
    /\ attempts = 0
    /\ max_attempts = 0
    /\ envelope = NoEnvelope
    /\ raised = FALSE
    /\ clientCalls = 0
    /\ modelCalls = 0
    /\ script = AllScripts
    /\ firstRaw = <<>>
    /\ heard = {}
    /\ braced = FALSE
    /\ retrieved = "none"
    /\ previous = {}
    /\ flashRaw = NoReply
    /\ calls = [id \in CallIds |-> IdleCall]
    /\ solo = [id \in CallIds |-> IdleSolo]
    /\ users = <<AdminUser>>
    /\ reqs = [w \in Workers |-> IdleReq]
    /\ nextToken = 1
    /\ lastResp = NoResp

\* generate_quiz, lines 205-219: up to the entry of the loop
GenerateQuizBegin(d, retrieval) ==
    /\ pc = "idle"
    /\ op' = "quiz"
    /\ difficulty' = d
    /\ IF ~RAG_AVAILABLE
       THEN /\ envelope' = empty_quiz("Document service not available")
            /\ pc' = "done"
            /\ UNCHANGED <<count, context, max_attempts, raised>>
       ELSE LET got == get_chunks(retrieval)
                ctx == JoinLen(got.chunks)
            IN /\ count' = DIFFICULTY_QUESTION_COUNT(d)
               /\ IF got.raised
                  THEN /\ raised' = TRUE
                       /\ pc' = "done"
                       /\ UNCHANGED <<context, max_attempts, envelope>>
                  ELSE /\ context' = ctx
                       /\ raised' = FALSE
                       /\ IF Insufficient(ctx)
                          THEN /\ envelope' = empty_quiz("Insufficient content")
                               /\ pc' = "done"
                               /\ UNCHANGED max_attempts
                          ELSE /\ max_attempts' = MaxAttempts(count')
                               /\ pc' = "quiz_loop"
                               /\ UNCHANGED envelope
    /\ questions' = <<>>
    /\ asked_questions' = {}
    /\ attempts' = 0
    /\ retrieved' = IF RAG_AVAILABLE THEN retrieval.kind ELSE "none"
    /\ UNCHANGED <<module, outside, clientCalls, modelCalls, replies, previous, flashRaw>>

\* generate_quiz, lines 221-233: one round of the loop
GenerateQuizAttempt(reply) ==
    /\ pc = "quiz_loop"
    /\ LoopContinues(Len(questions), count, attempts, max_attempts)
    /\ LET ready == ClientReady(GROQ_AVAILABLE, client)
           got == generate_mcq_from_context(GROQ_AVAILABLE, client, reply)
           q_text == Normalize(got.mcq["question"].s)
       IN /\ attempts' = attempts + 1
          /\ clientCalls' = clientCalls + 1
          /\ modelCalls' = modelCalls + got.calls
          /\ IF IsEmptyDict(got.mcq)
             THEN UNCHANGED <<questions, asked_questions>>
             ELSE IF q_text \in asked_questions
             THEN UNCHANGED <<questions, asked_questions>>
             ELSE /\ asked_questions' = asked_questions \cup {q_text}
                  /\ questions' = Append(questions, got.mcq)
          /\ script' = NextScript(ready, reply)
          /\ firstRaw' = IF "same" \notin NextScript(ready, reply) THEN <<>>
                         ELSE IF clientCalls = 0 THEN reply.raw ELSE firstRaw
          /\ heard' = NextHeard(ready, reply)
          /\ braced' = IF script' = {} THEN FALSE
                       ELSE braced \/ (~Silent(ready, reply) /\ ~BraceFree(reply.raw))
          /\ previous' = PreviousQuestions(asked_questions)
          /\ UNCHANGED <<retrieved, flashRaw>>
    /\ UNCHANGED <<module, outside, pc, op, difficulty, count, context, max_attempts,
                   envelope, raised>>

\* generate_quiz, lines 235-242: after the loop
GenerateQuizFinish ==
    /\ pc = "quiz_loop"
    /\ ~LoopContinues(Len(questions), count, attempts, max_attempts)
    /\ envelope' = QuizResult(questions, count, difficulty)
    /\ pc' = "done"
    /\ UNCHANGED <<module, outside, op, difficulty, count, context, locals, raised,
                   clientCalls, modelCalls, history, previous, flashRaw>>

\* generate_flashcards, lines 250-258
GenerateFlashcardsBegin(d, retrieval) ==
    /\ pc = "idle"
    /\ op' = "flashcards"
    /\ difficulty' = d
    /\ IF ~RAG_AVAILABLE
       THEN /\ envelope' = FlashcardsFailure
            /\ pc' = "done"
            /\ UNCHANGED <<count, context, raised>>
       ELSE LET got == get_chunks(retrieval)
                ctx == JoinLen(got.chunks)
            IN /\ count' = DIFFICULTY_QUESTION_COUNT(d)
               /\ IF got.raised
                  THEN /\ raised' = TRUE
                       /\ pc' = "done"
                       /\ UNCHANGED <<context, envelope>>
                  ELSE /\ context' = ctx
                       /\ raised' = FALSE
                       /\ IF Insufficient(ctx)
                          THEN /\ envelope' = FlashcardsFailure
                               /\ pc' = "done"
                          ELSE /\ pc' = "flash_call"
                               /\ UNCHANGED envelope
    /\ retrieved' = IF RAG_AVAILABLE THEN retrieval.kind ELSE "none"
    /\ UNCHANGED <<module, outside, locals, clientCalls, modelCalls, replies, previous, flashRaw>>

\* generate_flashcards, lines 260-266
GenerateFlashcardsFinish(reply) ==
    /\ pc = "flash_call"
    /\ LET got == generate_flashcards_from_context(GROQ_AVAILABLE, client, reply)
       IN /\ envelope' = FlashcardsResult(got.flashcards, difficulty)
          /\ clientCalls' = clientCalls + 1
          /\ modelCalls' = modelCalls + got.calls
          /\ flashRaw' = IF got.calls = 0 THEN NoReply ELSE reply
    /\ pc' = "done"
    /\ UNCHANGED <<module, outside, op, difficulty, count, context, locals, raised, history,
                   previous>>

\* the public function has returned; the process waits for the next request
Return ==
    /\ pc = "done"
    /\ pc' = "idle"
    /\ op' = "none"
    /\ difficulty' = "none"
    /\ count' = 0
    /\ context' = 0
    /\ questions' = <<>>
    /\ asked_questions' = {}
    /\ attempts' = 0
    /\ max_attempts' = 0
    /\ envelope' = NoEnvelope
    /\ raised' = FALSE
    /\ clientCalls' = 0
    /\ modelCalls' = 0
    /\ script' = AllScripts
    /\ firstRaw' = <<>>
    /\ heard' = {}
    /\ braced' = FALSE
    /\ retrieved' = "none"
    /\ previous' = {}
    /\ flashRaw' = NoReply
    /\ UNCHANGED <<module, outside>>

\* the replies the model may give to the next invocation of the loop
CurrentMcqReplies ==
    McqReplies(asked_questions, Len(questions),
               IF questions = <<>> THEN <<>> ELSE questions[1]["question"].s,
               IF questions = <<>> THEN <<>>
               ELSE questions[Len(questions)]["question"].s)

Next ==
    \/ \E d \in Difficulties, retrieval \in Retrievals : GenerateQuizBegin(d, retrieval)
    \/ \E reply \in CurrentMcqReplies : GenerateQuizAttempt(reply)
    \/ GenerateQuizFinish
    \/ \E d \in Difficulties, retrieval \in Retrievals : GenerateFlashcardsBegin(d, retrieval)
    \/ \E reply \in FlashcardReplies : GenerateFlashcardsFinish(reply)
    \/ Return

Spec == Init /\ [][Next]_vars

(***************************************************************************)
(* Two concurrent generate_quiz calls.  Each step is one round of one      *)
(* call's loop; the rounds of the two calls interleave in any order.       *)
(***************************************************************************)
PairDifficulties == {"easy"}

PairRetrievals ==
    {[kind |-> "raise", chunks |-> <<>>],
     [kind |-> "chunks",
      chunks |-> <<[text |-> "str", len |-> 100], [text |-> "str", len |-> 100]>>]}

\* the replies to one invocation of a call whose accepted questions are qs: a
\* failure, prose, a question new to this call, the call's first question again
PairReplies(qs) ==
    LET keys == {Normalize(qs[i]["question"].s) : i \in DOMAIN qs}
        unasked == Unasked(keys)
    IN {[kind |-> "raise", raw |-> <<>>], Text(<<Prose>>)}
       \cup (IF unasked = {} THEN {} ELSE {Text(PlainMcq(PoolText(Min(unasked))))})
       \cup (IF qs = <<>> THEN {} ELSE {Text(PlainMcq(Upper(qs[1]["question"].s)))})

\* generate_quiz, lines 205-219, in call id
CallBegin(id, d, retrieval) ==
    /\ calls[id].pc = "idle"
    /\ LET ctx == JoinLen(get_chunks(retrieval).chunks)
           n == DIFFICULTY_QUESTION_COUNT(d)
           early == IF ~RAG_AVAILABLE THEN empty_quiz("Document service not available")
                    ELSE IF Insufficient(ctx) THEN empty_quiz("Insufficient content")
                    ELSE NoEnvelope
       IN /\ calls' = [calls EXCEPT ![id] =
                [pc |-> IF early = NoEnvelope THEN "quiz_loop" ELSE "done",
                 difficulty |-> d,
                 count |-> IF RAG_AVAILABLE THEN n ELSE 0,
                 questions |-> <<>>,
                 asked_questions |-> {},
                 attempts |-> 0,
                 max_attempts |-> IF early = NoEnvelope THEN MaxAttempts(n) ELSE 0,
                 envelope |-> early]]
          /\ solo' = [solo EXCEPT ![id] = [IdleSolo EXCEPT !.envelope = early]]
    /\ UNCHANGED <<module, single, auth>>

\* generate_quiz, lines 221-233, in call id: one round of its loop
CallAttempt(id, reply) ==
    /\ calls[id].pc = "quiz_loop"
    /\ LoopContinues(Len(calls[id].questions), calls[id].count,
                     calls[id].attempts, calls[id].max_attempts)
    /\ LET mcq == generate_mcq_from_context(GROQ_AVAILABLE, client, reply).mcq
           mine == QuizRound(calls[id].questions, AskedOf(calls, id),
                             calls[id].attempts, mcq)
           alone == QuizRound(solo[id].questions, solo[id].asked_questions,
                              solo[id].attempts, mcq)
       IN /\ calls' = [calls EXCEPT ![id].questions = mine.questions,
                                    ![id].asked_questions = mine.asked_questions,
                                    ![id].attempts = mine.attempts]
          /\ solo' = [solo EXCEPT ![id].questions = alone.questions,
                                  ![id].asked_questions = alone.asked_questions,
                                  ![id].attempts = alone.attempts]
    /\ UNCHANGED <<module, single, auth>>

\* generate_quiz, lines 235-242, in call id
CallFinish(id) ==
    /\ calls[id].pc = "quiz_loop"
    /\ ~LoopContinues(Len(calls[id].questions), calls[id].count,
                      calls[id].attempts, calls[id].max_attempts)
    /\ calls' = [calls EXCEPT
                    ![id].pc = "done",
                    ![id].envelope = QuizResult(calls[id].questions, calls[id].count,
                                                calls[id].difficulty)]
    /\ solo' = [solo EXCEPT
                    ![id].envelope = QuizResult(solo[id].questions, calls[id].count,
                                                calls[id].difficulty)]
    /\ UNCHANGED <<module, single, auth>>

\* call id has returned; its thread waits for the next request
CallReturn(id) ==
    /\ calls[id].pc = "done"
    /\ calls' = [calls EXCEPT ![id] = IdleCall]
    /\ solo' = [solo EXCEPT ![id] = IdleSolo]
    /\ UNCHANGED <<module, single, auth>>

NextPair ==
    \/ \E id \in CallIds, d \in PairDifficulties, retrieval \in PairRetrievals :
          CallBegin(id, d, retrieval)
    \/ \E id \in CallIds : \E reply \in PairReplies(calls[id].questions) :
          CallAttempt(id, reply)
    \/ \E id \in CallIds : CallFinish(id)
    \/ \E id \in CallIds : CallReturn(id)

SpecPair == Init /\ [][NextPair]_vars

(***************************************************************************)
(* The routes of backend/routes/auth_routes.py.  A route that opens more   *)
(* than one database session is one step per session, so the requests of   *)
(* two workers interleave between sessions; student_register and           *)
(* student_login use one session each.                                     *)
(***************************************************************************)
RespondStill(resp) ==
    /\ lastResp' = resp
    /\ UNCHANGED <<module, single, pair>>

\* register_route (lines 53-83)
RegisterRoute(email_in, password, username_in) ==
    LET r == student_register(users, nextToken, Strip(email_in), password,
                              Strip(username_in))
    IN /\ r.result.success => (Len(users) < MaxUsers /\ nextToken <= MaxTokens)
       /\ users' = r.users
       /\ nextToken' = IF r.result.success THEN nextToken + 1 ELSE nextToken
       /\ RespondStill([route |-> "register", body |-> r.result])
       /\ UNCHANGED reqs

\* login_route (lines 33-47)
LoginRoute(email_in, password) ==
    LET email == Strip(email_in)
    IN /\ RespondStill([route |-> "login",
                        body |-> IF email = <<>> \/ password = <<>>
                                 THEN [success |-> FALSE,
                                       message |-> "Email and password are required"]
                                 ELSE student_login(users, email, password)])
       /\ UNCHANGED <<users, reqs, nextToken>>

\* verify_email_route (lines 196-221)
VerifyEmailRoute(token) ==
    LET ByToken(u) == u.email_verify_token = token /\ ~u.verify_expired
        id == First(users, {u \in Range(users) : ByToken(u)})
    IN /\ IF id = 0
          THEN /\ RespondStill([route |-> "verify", redirect |-> "/?verify=failed"])
               /\ UNCHANGED users
          ELSE /\ users' = [users EXCEPT ![id].email_verified = TRUE,
                                         ![id].email_verify_token = 0,
                                         ![id].verify_expired = FALSE]
               /\ RespondStill([route |-> "verify", redirect |-> "/dashboard",
                                token |-> create_access_token(id, users[id].role)])
       /\ UNCHANGED <<reqs, nextToken>>

\* forgot_password_route (lines 137-160) up to get_user_by_email
ForgotPasswordBegin(w, email_in) ==
    LET email == Strip(email_in)
        user_id == get_user_by_email(users, email)
    IN /\ reqs[w].pc = "idle"
       /\ IF email = <<>> \/ user_id = 0
          THEN /\ RespondStill([route |-> "forgot", body |-> ForgotReply(FALSE).body])
               /\ UNCHANGED <<reqs, nextToken>>
          ELSE /\ nextToken <= MaxTokens
               /\ reqs' = [reqs EXCEPT ![w] = [pc |-> "forgot_save", user_id |-> user_id,
                                               token |-> nextToken, password |-> <<>>]]
               /\ nextToken' = nextToken + 1
               /\ UNCHANGED <<module, single, pair, lastResp>>
       /\ UNCHANGED users

\* forgot_password_route from save_reset_token to its return
ForgotPasswordSave(w) ==
    /\ reqs[w].pc = "forgot_save"
    /\ users' = save_reset_token(users, reqs[w].user_id, reqs[w].token)
    /\ reqs' = [reqs EXCEPT ![w] = IdleReq]
    /\ RespondStill([route |-> "forgot", body |-> ForgotReply(TRUE).body])
    /\ UNCHANGED nextToken

\* reset_password_route (lines 166-190) up to get_user_by_reset_token
ResetPasswordBegin(w, token, new_password) ==
    LET user_id == get_user_by_reset_token(users, token)
    IN /\ reqs[w].pc = "idle"
       /\ IF new_password = <<>>
          THEN /\ RespondStill([route |-> "reset",
                                body |-> [success |-> FALSE,
                                          message |-> "Password is required"]])
               /\ UNCHANGED reqs
          ELSE IF user_id = 0
          THEN /\ RespondStill([route |-> "reset",
                                body |-> [success |-> FALSE,
                                          message |-> "Invalid or expired reset link"]])
               /\ UNCHANGED reqs
          ELSE /\ reqs' = [reqs EXCEPT ![w] = [pc |-> "reset_update", user_id |-> user_id,
                                               token |-> token,
                                               password |-> new_password]]
               /\ UNCHANGED <<module, single, pair, lastResp>>
       /\ UNCHANGED <<users, nextToken>>

\* reset_password_route: update_user_password, its result dropped
ResetPasswordUpdate(w) ==
    /\ reqs[w].pc = "reset_update"
    /\ users' = update_user_password(users, reqs[w].user_id, reqs[w].password).users
    /\ reqs' = [reqs EXCEPT ![w].pc = "reset_clear"]
    /\ UNCHANGED <<module, single, pair, lastResp, nextToken>>

\* reset_password_route from clear_reset_token to its return
ResetPasswordClear(w) ==
    /\ reqs[w].pc = "reset_clear"
    /\ users' = clear_reset_token(users, reqs[w].user_id)
    /\ reqs' = [reqs EXCEPT ![w] = IdleReq]
    /\ RespondStill([route |-> "reset",
                     body |-> [success |-> TRUE,
                               message |-> "Password updated successfully"]])
    /\ UNCHANGED nextToken

\* the thirty minutes of a verification link pass
VerifyLinkExpires(id) ==
    /\ users[id].email_verify_token /= 0
    /\ ~users[id].verify_expired
    /\ users' = [users EXCEPT ![id].verify_expired = TRUE]
    /\ UNCHANGED <<module, single, pair, reqs, nextToken, lastResp>>

\* the thirty minutes of a reset link pass
ResetLinkExpires(id) ==
    /\ users[id].reset_token /= 0
    /\ ~users[id].reset_expired
    /\ users' = [users EXCEPT ![id].reset_expired = TRUE]
    /\ UNCHANGED <<module, single, pair, reqs, nextToken, lastResp>>

NextAuth ==
    \/ \E e \in EmailInputs, p \in RegisterPasswords, u \in UsernameInputs : RegisterRoute(e, p, u)
    \/ \E e \in EmailInputs, p \in Passwords : LoginRoute(e, p)
    \/ \E token \in 1..MaxTokens : VerifyEmailRoute(token)
    \/ \E w \in Workers, e \in EmailInputs : ForgotPasswordBegin(w, e)
    \/ \E w \in Workers : ForgotPasswordSave(w)
    \/ \E w \in Workers, token \in 1..MaxTokens, p \in Passwords :
          ResetPasswordBegin(w, token, p)
    \/ \E w \in Workers : ResetPasswordUpdate(w)
    \/ \E w \in Workers : ResetPasswordClear(w)
    \/ \E id \in DOMAIN users : VerifyLinkExpires(id)
    \/ \E id \in DOMAIN users : ResetLinkExpires(id)

(***************************************************************************)
(* student_register under concurrency.  Each call has its own session and  *)
(* takes no lock: its two queries and its commit are three statements, and *)
(* the statements of two calls interleave.  backend/models/database.py is  *)
(* not among the sources, so whether the e-mail and username columns are   *)
(* unique is not known: the commit of a row that clashes with a stored one *)
(* either stores it or raises IntegrityError, which student_register does  *)
(* not catch.                                                              *)
(***************************************************************************)
\* the User row of lines 88-101
NewUser(email, username, password, token) ==
    [email |-> email, username |-> username,
     password_hash |-> Hash(password), role |-> "student",
     email_verified |-> FALSE,
     email_verify_token |-> token, verify_expired |-> FALSE,
     reset_token |-> 0, reset_expired |-> FALSE]

\* a stored row holds the e-mail or the username
Clashes(us, email, username) ==
    \E i \in DOMAIN us : us[i].email = email \/ us[i].username = username

\* the outcomes of db.commit() for a row
CommitOutcomes(us, email, username) ==
    IF Clashes(us, email, username) THEN {"stored", "IntegrityError"} ELSE {"stored"}

\* student_register, lines 68-78: normalisation, password check, e-mail query
RegisterCheckEmail(w, email_in, password, username_in) ==
    LET email == Lower(Strip(Strip(email_in)))
        username == Strip(Strip(username_in))
        password_error == validate_password_strength(password)
        ByEmail(u) == u.email = email
    IN /\ reqs[w].pc = "idle"
       /\ IF password_error /= NoError
          THEN /\ RespondStill([route |-> "register",
                                body |-> [success |-> FALSE, message |-> password_error]])
               /\ UNCHANGED reqs
          ELSE IF First(users, {u \in Range(users) : ByEmail(u)}) /= 0
          THEN /\ RespondStill([route |-> "register",
                                body |-> [success |-> FALSE,
                                          message |-> "Email already registered"]])
               /\ UNCHANGED reqs
          ELSE /\ reqs' = [reqs EXCEPT ![w] = [pc |-> "register_username",
                                               email |-> email, username |-> username,
                                               password |-> password]]
               /\ UNCHANGED <<module, single, pair, lastResp>>
       /\ UNCHANGED <<users, nextToken>>

\* student_register, lines 80-82: username query
RegisterCheckUsername(w) ==
    LET ByUsername(u) == u.username = reqs[w].username
    IN /\ reqs[w].pc = "register_username"
       /\ IF First(users, {u \in Range(users) : ByUsername(u)}) /= 0
          THEN /\ reqs' = [reqs EXCEPT ![w] = IdleReq]
               /\ RespondStill([route |-> "register",
                                body |-> [success |-> FALSE,
                                          message |-> "Username already taken"]])
          ELSE /\ reqs' = [reqs EXCEPT ![w].pc = "register_commit"]
               /\ UNCHANGED <<module, single, pair, lastResp>>
       /\ UNCHANGED <<users, nextToken>>

\* student_register, lines 84-117: the row, db.add, db.commit, the reply
RegisterCommit(w, outcome) ==
    /\ reqs[w].pc = "register_commit"
    /\ nextToken <= MaxTokens
    /\ outcome \in CommitOutcomes(users, reqs[w].email, reqs[w].username)
    /\ reqs' = [reqs EXCEPT ![w] = IdleReq]
    /\ IF outcome = "stored"
       THEN /\ users' = Append(users, NewUser(reqs[w].email, reqs[w].username,
                                              reqs[w].password, nextToken))
            /\ nextToken' = nextToken + 1
            /\ RespondStill([route |-> "register",
                             body |-> [success |-> TRUE,
                                       message |-> "Registration successful. Verification email sent.",
                                       user |-> [id |-> Len(users) + 1,
                                                 email |-> reqs[w].email,
                                                 username |-> reqs[w].username,
                                                 role |-> "student"]]])
       ELSE /\ RespondStill([route |-> "register", raised |-> outcome])
            /\ UNCHANGED <<users, nextToken>>

NextRegister ==
    \/ \E w \in Workers, e \in EmailInputs, p \in RegisterPasswords, u \in UsernameInputs :
          RegisterCheckEmail(w, e, p, u)
    \/ \E w \in Workers : RegisterCheckUsername(w)
    \/ \E w \in Workers, outcome \in {"stored", "IntegrityError"} : RegisterCommit(w, outcome)
    \/ \E e \in EmailInputs, p \in Passwords : LoginRoute(e, p)

\* The routes read none of the flags ai_service.py sets at import: one import
\* outcome stands for all of them.
InitAuth ==
    /\ Init
    /\ startup = "ok"
    /\ RAG_AVAILABLE

SpecAuth == InitAuth /\ [][NextAuth]_vars

SpecRegister == InitAuth /\ [][NextRegister]_vars

(***************************************************************************)
(* Properties.                                                             *)
(***************************************************************************)
\* the call is generate_quiz and it went past the context test
InQuizLoop ==
    /\ op = "quiz"
    /\ RAG_AVAILABLE
    /\ context >= 200
    /\ pc \in {"quiz_loop", "done"}

\* generate_quiz returned after its loop
QuizLoopDone == InQuizLoop /\ pc = "done"

KeyOf(mcq) == Lower(Strip(mcq["question"].s))

GenerationFailed ==
    [success |-> FALSE, message |-> "MCQ generation failed", questions |-> <<>>]

\* C1: in every generate_quiz call that reaches the retry loop, whatever the
\* difficulty and the replies, the attempt budget is four times the target
\* count, and the loop never invokes the client more often than that.
C1_AttemptBudget ==
    InQuizLoop =>
        /\ max_attempts = count * 4
        /\ attempts <= count * 4
        /\ clientCalls <= count * 4
        /\ modelCalls <= clientCalls

C1_Witness ==
    QuizLoopDone /\ difficulty = "hard" /\ clientCalls = 40 /\ modelCalls = 40
    /\ Len(questions) = 9

\* C2: the question sequence generate_quiz returns holds no two elements whose
\* trimmed, lower-cased question texts are equal.
C2_UniqueQuestions ==
    (pc = "done" /\ op = "quiz" /\ ~raised) =>
        \A i, j \in DOMAIN envelope.questions :
            i /= j => KeyOf(envelope.questions[i]) /= KeyOf(envelope.questions[j])

C2_Witness ==
    /\ QuizLoopDone
    /\ envelope.success
    /\ Len(envelope.questions) = count
    /\ envelope.questions[1]["question"].s /= KeyOf(envelope.questions[1])
    /\ clientCalls > count

\* C3: when the joined context is shorter than 200 characters, generate_quiz
\* and generate_flashcards return success False with an empty artifact
\* sequence, and the call invokes the model client zero times.
C3_InsufficientShortCircuit ==
    (op \in {"quiz", "flashcards"} /\ RAG_AVAILABLE /\ context < 200) =>
        /\ pc = "done"
        /\ ~raised
        /\ envelope.success = FALSE
        /\ (op = "quiz" => envelope.questions = <<>>)
        /\ (op = "flashcards" => envelope.flashcards = <<>>)
        /\ clientCalls = 0
        /\ modelCalls = 0

C3_Witness ==
    /\ pc = "done" /\ op = "flashcards" /\ RAG_AVAILABLE /\ retrieved = "chunks"
    /\ context = 199
    /\ envelope.success = FALSE /\ envelope.flashcards = <<>>

\* C4: with a sufficient context, if every invocation of the client gave no
\* output (client unavailable, or the model call failed), generate_quiz returns
\* the "MCQ generation failed" envelope after exactly count * 4 attempts.
C4_SilentClientExhausts ==
    (QuizLoopDone /\ "silent" \in script) =>
        /\ envelope = GenerationFailed
        /\ attempts = count * 4
        /\ clientCalls = count * 4

C4_Witness ==
    /\ QuizLoopDone /\ "silent" \in script /\ ~GROQ_AVAILABLE
    /\ difficulty = "medium" /\ clientCalls = 32 /\ modelCalls = 0
    /\ envelope = GenerationFailed

\* C5: after the loop of generate_quiz the number k of accepted questions is
\* at most the target count; with k > 0 the envelope is a success that holds
\* exactly those k questions (also when k is below the target), and the
\* failure envelope is returned only with k = 0.
C5_PartialSuccess ==
    QuizLoopDone =>
        /\ Len(questions) <= count
        /\ Cardinality(asked_questions) = Len(questions)
        /\ IF Len(questions) > 0
           THEN /\ envelope.success = TRUE
                /\ envelope.questions = questions
           ELSE envelope = GenerationFailed

C5_Witness ==
    /\ QuizLoopDone
    /\ Len(questions) = count - 1
    /\ attempts = max_attempts
    /\ envelope.success = TRUE
    /\ Len(envelope.questions) = count - 1

\* C6: if every invocation of the client returned the same well-shaped MCQ,
\* generate_quiz uses its whole budget (32 attempts for medium) and returns
\* success True with exactly one question, the first reply's.
C6_IdenticalReplies ==
    (QuizLoopDone /\ "same" \in script) =>
        /\ attempts = count * 4
        /\ clientCalls = count * 4
        /\ (difficulty = "medium" => attempts = 32)
        /\ envelope.success = TRUE
        /\ Len(envelope.questions) = 1
        /\ envelope.questions[1]["question"].s = QuestionOf(firstRaw)

\* C6, for replies without a "}" inside a string value: the statement holds.
C6_IdenticalBraceFree == (~braced) => C6_IdenticalReplies

C6_BraceFreeWitness ==
    /\ QuizLoopDone /\ "same" \in script /\ difficulty = "medium"
    /\ attempts = 32 /\ modelCalls = 32
    /\ envelope.success = TRUE /\ Len(envelope.questions) = 1

\* C7: with a sufficient context, if every invocation of the client returned a
\* well-shaped MCQ never seen before, generate_quiz returns success True with
\* exactly count questions (8 for medium) after exactly count invocations of
\* the client.
C7_FreshReplies ==
    (QuizLoopDone /\ "fresh" \in script) =>
        /\ envelope.success = TRUE
        /\ Len(envelope.questions) = count
        /\ clientCalls = count
        /\ (difficulty = "medium" => Len(envelope.questions) = 8)

\* C7, for replies without a "}" inside a string value: every reply is
\* accepted, the client is never invoked more than count times, and the
\* statement holds at the return.
C7_FreshBraceFree ==
    (InQuizLoop /\ "fresh" \in script /\ ~braced) =>
        /\ Len(questions) = clientCalls
        /\ clientCalls <= count
        /\ pc = "done" => C7_FreshReplies /\ modelCalls = count

C7_BraceFreeWitness ==
    /\ QuizLoopDone /\ "fresh" \in script /\ ~braced /\ difficulty = "medium"
    /\ context = 201
    /\ envelope.success = TRUE /\ Len(envelope.questions) = 8 /\ clientCalls = 8

\* C8: every failure envelope that generate_quiz or generate_flashcards returns
\* carries a human-readable message.
C8_FailureHasMessage ==
    (pc = "done" /\ ~raised /\ envelope.success = FALSE) =>
        /\ "message" \in DOMAIN envelope
        /\ envelope["message"] \in {"Document service not available",
                                    "Insufficient content", "MCQ generation failed"}

\* C9: whenever generate_quiz or generate_flashcards ends, it ends by returning
\* an envelope (a dict with a success flag and its artifact sequence): no
\* exception leaves the public function, whatever retrieve_context and the
\* model client did.
C9_Total ==
    /\ ~raised
    /\ pc = "done" =>
          /\ "success" \in DOMAIN envelope
          /\ (op = "quiz" => "questions" \in DOMAIN envelope)
          /\ (op = "flashcards" => "flashcards" \in DOMAIN envelope)

C9_Witness ==
    /\ pc = "done" /\ op = "flashcards" /\ retrieved = "raise"
    /\ "success" \in DOMAIN envelope

C11_QuestionShape ==
    (pc = "done" /\ op = "quiz" /\ ~raised) =>
        \A i \in DOMAIN envelope.questions :
            LET q == envelope.questions[i]
            IN /\ q["options"] = ListVal(FourStrings)
               /\ q["correct_index"].t = "int"
               /\ q["correct_index"].n \in 0..3

\* generate_flashcards went past the context test
InFlashcards ==
    /\ op = "flashcards"
    /\ RAG_AVAILABLE
    /\ context >= 200
    /\ pc \in {"flash_call", "done"}

\* C12: with a context of at least 200 characters generate_flashcards invokes
\* the batch wrapper exactly once (at most one model call, none when the client
\* is unavailable), and returns success True with the cards the wrapper
\* extracted, also when there are none (client unavailable, the call failed,
\* or no valid card was parsed).
C12_SingleBatchCall ==
    InFlashcards =>
        /\ clientCalls <= 1
        /\ modelCalls <= clientCalls
        /\ pc = "done" =>
              /\ ~raised
              /\ clientCalls = 1
              /\ modelCalls = (IF ClientReady(GROQ_AVAILABLE, client) THEN 1 ELSE 0)
              /\ envelope.success = TRUE
              /\ envelope.difficulty = difficulty
              /\ envelope.flashcards =
                    (IF modelCalls = 1 THEN ParseFlashcards(flashRaw) ELSE <<>>)
              /\ (flashRaw.kind /= "text" => envelope.flashcards = <<>>)
              /\ \A i \in DOMAIN envelope.flashcards :
                    /\ envelope.flashcards[i].front /= <<>>
                    /\ envelope.flashcards[i].back /= <<>>

C12_Witness ==
    /\ InFlashcards /\ pc = "done" /\ context = 200
    /\ modelCalls = 1 /\ flashRaw.kind = "text" /\ ArrayMatch(flashRaw.raw).found
    /\ envelope.success = TRUE /\ envelope.flashcards = <<>>

C14_UnavailableForLife ==
    [][ /\ module' = module
        /\ (startup = "ok") <=> ClientReady(GROQ_AVAILABLE, client)
        /\ (startup /= "ok") => modelCalls' = 0
        /\ (clientCalls' = clientCalls + 1) =>
              IF startup = "ok"
              THEN modelCalls' = modelCalls + 1
              ELSE /\ modelCalls' = modelCalls
                   /\ questions' = questions
                   /\ asked_questions' = asked_questions
                   /\ (op = "flashcards" => envelope'.flashcards = <<>>) ]_vars

C14_Witness ==
    /\ startup = "malformed" /\ pc = "done" /\ op = "quiz" /\ difficulty = "hard"
    /\ clientCalls = 40 /\ modelCalls = 0 /\ envelope = GenerationFailed

\* C15: two generate_quiz calls whose rounds interleave in any order share no
\* locals: at every moment the questions, the asked set, the attempts and the
\* envelope of each call are those of the same call run alone on the replies
\* it received, and its asked set holds the keys of its own questions only; a
\* text accepted by one call is accepted by the other call as well.
C15_CallsIndependent ==
    \A id \in CallIds :
        /\ calls[id].questions = solo[id].questions
        /\ calls[id].asked_questions = solo[id].asked_questions
        /\ calls[id].attempts = solo[id].attempts
        /\ calls[id].envelope = solo[id].envelope
        /\ calls[id].asked_questions =
              {KeyOf(calls[id].questions[i]) : i \in DOMAIN calls[id].questions}
        /\ Cardinality(calls[id].asked_questions) = Len(calls[id].questions)

C15_Witness ==
    /\ calls[1].pc = "quiz_loop" /\ calls[2].pc = "done"
    /\ Len(calls[1].questions) = 3 /\ calls[1].attempts = 4
    /\ calls[2].envelope.success = TRUE /\ Len(calls[2].envelope.questions) = 5
    /\ calls[2].attempts = 5
    /\ \A i \in 1..3 : calls[1].questions[i] = calls[2].questions[i]

\* C17: the loop of generate_quiz is never left early.  Every invocation of
\* the client wrapper adds exactly one to attempts, whatever its outcome, and
\* when the loop is left the questions number count or attempts equals
\* max_attempts.
C17_NoEarlyExit ==
    InQuizLoop =>
        /\ attempts = clientCalls
        /\ pc = "quiz_loop" => attempts <= max_attempts /\ Len(questions) <= count
        /\ pc = "done" => (Len(questions) = count \/ attempts = max_attempts)
        /\ (pc = "done" /\ Len(questions) < count) => attempts = count * 4

C17_Witness ==
    /\ QuizLoopDone /\ script = {} /\ difficulty = "medium"
    /\ Len(questions) = 2 /\ attempts = 32 /\ modelCalls = 32

\* C18: at every invocation of the client wrapper in generate_quiz the set
\* passed as the previous questions is asked_questions, which is the set of
\* the trimmed, lower-cased texts of the questions accepted so far and has as
\* many members as there are questions; a round that accepts nothing leaves
\* the set as it was.
C18_PreviousIsAsked ==
    [][ (pc = "quiz_loop" /\ clientCalls' = clientCalls + 1) =>
            /\ previous' = asked_questions
            /\ previous' = {KeyOf(questions[i]) : i \in DOMAIN questions}
            /\ Cardinality(previous') = Len(questions)
            /\ asked_questions' = {KeyOf(questions'[i]) : i \in DOMAIN questions'}
            /\ Cardinality(asked_questions') = Len(questions')
            /\ (questions' = questions => asked_questions' = asked_questions) ]_vars

C18_Witness ==
    /\ pc = "quiz_loop" /\ op = "quiz" /\ Len(questions) = 3 /\ attempts = 6
    /\ Cardinality(previous) = 2 /\ Cardinality(asked_questions) = 3
    /\ script = {}

\* the terminal states of a generate_quiz call
AtInsufficient ==
    /\ envelope = empty_quiz("Insufficient content")
    /\ context < 200 /\ attempts = 0
AtExhausted ==
    /\ envelope = GenerationFailed
    /\ questions = <<>> /\ attempts = max_attempts /\ attempts > 0
AtComplete ==
    /\ "success" \in DOMAIN envelope /\ envelope.success = TRUE
    /\ envelope.questions = questions
    /\ 0 < Len(questions) /\ Len(questions) <= count
AtUnavailable ==
    /\ envelope = empty_quiz("Document service not available")
    /\ ~RAG_AVAILABLE /\ attempts = 0

ExactlyOne(states) == Cardinality({i \in DOMAIN states : states[i]}) = 1

FlashcardsParsed ==
    /\ pc = "done" /\ op = "flashcards" /\ flashRaw.kind = "text"
    /\ ArrayMatch(flashRaw.raw).found
    /\ JsonElements(Inner(ArrayMatch(flashRaw.raw).text)).ok

ParsedElements == JsonElements(Inner(ArrayMatch(flashRaw.raw).text)).elems

\* the cards returned are the elements of the parsed array whose front and
\* back, as trimmed strings, are both non-empty, in their order, each with
\* question equal to front and answer equal to back
ReturnsNonEmptyCards ==
    LET es == ParsedElements
        Field(i, key) == IF es[i].isdict THEN CardField(es[i].data, key) ELSE <<>>
        keep == {i \in DOMAIN es : Field(i, "front") /= <<>> /\ Field(i, "back") /= <<>>}
        Nth(k) == CHOOSE i \in keep : Cardinality({j \in keep : j <= i}) = k
    IN /\ Len(envelope.flashcards) = Cardinality(keep)
       /\ \A k \in DOMAIN envelope.flashcards :
             /\ envelope.flashcards[k].front = Field(Nth(k), "front")
             /\ envelope.flashcards[k].back = Field(Nth(k), "back")
             /\ envelope.flashcards[k].question = envelope.flashcards[k].front
             /\ envelope.flashcards[k].answer = envelope.flashcards[k].back

\* C20: of the parsed array the flashcard parser keeps exactly the elements
\* whose front and back are both non-empty after trimming, in their original
\* order, and drops the others; every card returned has question equal to
\* front and answer equal to back.
C20_KeepsNonEmptyCards == FlashcardsParsed => ReturnsNonEmptyCards

\* C20, for arrays whose elements are all objects: the statement holds.
C20_ObjectArrays ==
    (FlashcardsParsed /\ \A i \in DOMAIN ParsedElements : ParsedElements[i].isdict)
        => ReturnsNonEmptyCards

C20_ObjectArraysWitness ==
    /\ FlashcardsParsed /\ Len(ParsedElements) = 2
    /\ Len(envelope.flashcards) = 1
    /\ envelope.flashcards[1].front = <<"c">>
    /\ envelope.flashcards[1].answer = <<"5">>

\* C16: in every state the register, verify-email, forgot-password and
\* reset-password routes can reach, student_login given any spelling of a
\* student's stored e-mail address and the password of the stored hash
\* returns success with that student's access token, whatever email_verified
\* holds; the flag is only copied into the reply.
C16_VerificationNeverBlocksLogin ==
    \A id \in DOMAIN users : \A p \in Passwords :
        (users[id].role = "student" /\ Verify(p, users[id].password_hash)) =>
            \A e \in Variants(users[id].email) :
                LET r == student_login(users, e, p)
                IN /\ r.success
                   /\ r.message = "Login successful"
                   /\ r.token = create_access_token(id, "student")
                   /\ r.user.email_verified = users[id].email_verified

C16_Witness ==
    /\ lastResp.route = "login"
    /\ lastResp.body.success
    /\ ~lastResp.body.user.email_verified
    /\ users[lastResp.body.user.id].email_verify_token /= 0
    /\ users[lastResp.body.user.id].reset_token /= 0

\* C21: under every interleaving of concurrent student_register calls no two
\* stored users share an e-mail address or a username, and a call whose
\* e-mail or username is in use when it commits returns success false and
\* adds no row.
C21_NoDuplicateAccounts ==
    /\ [](\A i \in DOMAIN users : \A j \in DOMAIN users :
             i /= j => /\ users[i].email /= users[j].email
                       /\ users[i].username /= users[j].username)
    /\ [][ \A w \in Workers : \A outcome \in {"stored", "IntegrityError"} :
             (RegisterCommit(w, outcome)
                 /\ Clashes(users, reqs[w].email, reqs[w].username)) =>
                 /\ users' = users
                 /\ "body" \in DOMAIN lastResp'
                 /\ ~lastResp'.body.success ]_vars

\* the new password of the reset request worker w is serving fails
\* validate_password_strength
ResetRejected(w) == validate_password_strength(reqs[w].password) /= NoError

\* C22: the reset-password route answers success only when the submitted
\* password passed the strength validation and so replaced the stored hash;
\* for a rejected password the route answers failure, the stored hash stays
\* and the reset token is not cleared.
C22_ResetReportsTruth ==
    [][ \A w \in Workers :
          /\ (ResetPasswordUpdate(w) /\ ResetRejected(w)) => users' = users
          /\ ResetPasswordClear(w) =>
                /\ lastResp'.body.success => ~ResetRejected(w)
                /\ ResetRejected(w) =>
                      /\ ~lastResp'.body.success
                      /\ users' = users ]_vars

\* no row holds the token: a reset request that succeeded has cleared it, a
\* later forgot-password request has replaced it, or it was never stored
TokenGone(us, token) == \A i \in DOMAIN us : us[i].reset_token /= token

InvalidLink ==
    [route |-> "reset",
     body |-> [success |-> FALSE, message |-> "Invalid or expired reset link"]]

\* C23: a reset-password request changes a password and is answered with
\* success only while its token is still stored: a request that arrives with
\* an unknown, cleared or expired token is answered "Invalid or expired reset
\* link", and once a request has succeeded and cleared the token, a request
\* interleaved with it that carries the same token changes no password and
\* gets that answer too.
C23_TokenSingleUse ==
    [][ \A w \in Workers :
          /\ \A token \in 1..MaxTokens : \A p \in Passwords \ {<<>>} :
                (ResetPasswordBegin(w, token, p)
                    /\ get_user_by_reset_token(users, token) = 0) =>
                    /\ lastResp' = InvalidLink
                    /\ users' = users
          /\ (ResetPasswordUpdate(w) /\ TokenGone(users, reqs[w].token)) =>
                users' = users
          /\ (ResetPasswordClear(w) /\ TokenGone(users, reqs[w].token)) =>
                lastResp' = InvalidLink ]_vars

\* C24: the status and body forgot-password answers with do not tell whether
\* the address is registered: for every stored user and every spelling of its
\* address, the answer on the table is the answer on the same table without
\* that user's row.
C24_ForgotHidesRegistration ==
    \A id \in DOMAIN users : \A e \in Variants(users[id].email) :
        forgot_password_reply(users, e) = forgot_password_reply(WithoutUser(users, id), e)

==============================================================================
